---------------------------- MODULE Spec2Model ----------------------------
(***************************************************************************)
(* RSCapture: the region selector (ui/selection_overlay.py), the capture   *)
(* process manager (core/capture_manager.py), the transcode step           *)
(* (core/video_processor.py) and the coordinator that composes them        *)
(* (ui/main_window.py, ui/post_capture_dialog.py).                         *)
(*                                                                         *)
(* Optional values: an Optional[QPoint] / Optional[QRect] is a sequence of *)
(* length 0 (None) or 1; an Optional[str] is the string "None" or a path;  *)
(* an Optional[Popen] is 0 (None) or the index of the process in procs.    *)
(***************************************************************************)
EXTENDS Integers, Sequences, FiniteSets, TLC

VARIABLES
    \* ---- SelectionOverlay ----
    ovVisible,        \* the overlay widget is shown
    start_point,      \* self.start_point
    end_point,        \* self.end_point
    current_rect,     \* self.current_rect
    cursor,           \* the widget's cursor shape
    mouseGrab,        \* the widget holds the mouse grab
    pointer,          \* global pointer position (environment)
    emitted,          \* selection_made emissions since the last showEvent
    \* ---- CaptureManager and the processes it spawns ----
    ffmpeg_process,   \* self.ffmpeg_process: 0 (None) or an index into procs
    temp_output_file, \* self.temp_output_file: "None" or a path
    procs,            \* every process spawned so far, in spawn order
    cm_call,          \* the last CaptureManager call and its outcome
    \* ---- environment: search path and file system ----
    ffmpeg_on_path,   \* shutil.which("ffmpeg") finds the binary
    files,            \* the paths that exist on disk
    undeletable,      \* the paths on which os.remove fails
    \* ---- VideoProcessor ----
    vp_call,          \* the last VideoProcessor call and its outcome
    \* ---- MainWindow ----
    is_recording,     \* self.is_recording
    selected_rect,    \* self.selected_rect: None or (x, y, width, height)
    current_temp_file,\* self.current_temp_file: "None" or a path
    mainVisible,      \* the main window is shown
    btn_select_area,  \* the Select Area button is enabled
    btn_record,       \* the Record button is enabled
    btn_stop,         \* the Stop button is enabled
    temp_dir_exists,  \* the directory self.temp_video_dir exists
    app,              \* "running", "closed" (closeEvent accepted) or
                      \* "aborted" (an exception left a slot)
    \* ---- PostCaptureDialog ----
    dlg,              \* "closed", or "open" while dialog.exec() runs
    temp_video_path,  \* self.temp_video_path
    selected_quality, \* self.selected_quality
    encoding          \* "None", or the destination of the re_encode_video
                      \* call that _save_video has made and that has not
                      \* returned yet

selVars == <<ovVisible, start_point, end_point, current_rect, cursor,
             mouseGrab, pointer, emitted>>

cmVars == <<ffmpeg_process, temp_output_file, procs, cm_call>>

envVars == <<ffmpeg_on_path, files, undeletable>>

vpVars == <<vp_call>>

mwVars == <<is_recording, selected_rect, current_temp_file, mainVisible,
            btn_select_area, btn_record, btn_stop, temp_dir_exists, app>>

dlgVars == <<dlg, temp_video_path, selected_quality, encoding>>

uiVars == <<mwVars, dlgVars>>

vars == <<selVars, cmVars, envVars, vpVars, uiVars>>

-----------------------------------------------------------------------------
(* Bounds *)

\* Screen coordinates range over 0..MaxCoord on both axes.
MaxCoord == 2

\* A CaptureManager spawns at most MaxSpawns processes in one run.
MaxSpawns == 2

\* The buffer of the pipes that Popen attaches to a capture process holds
\* PipeCapacity units of diagnostic output.
PipeCapacity == 1

\* Requested capture sizes and offsets range over -1..MaxCoord + 1 when
\* CaptureManager is driven directly.
Sizes == -1..(MaxCoord + 1)

\* Intermediate (temp) files and destination files.
TempPaths == {"a.mkv", "b.mkv"}
DestPaths == {"out.mp4"}
Paths == TempPaths \cup DestPaths

Coords == 0..MaxCoord
Points == [x : Coords, y : Coords]

\* In the application as a whole the pointer stays on the top row of the
\* screen: a gesture there emits a selection or, dragged one pixel to the
\* left, none.
AppPoints == {p \in Points : p.y = 0}
Buttons == {"Left", "Right"}

None == << >>
Some(v) == <<v>>

-----------------------------------------------------------------------------
(* QRect as PyQt6 gives it: inclusive corner coordinates x1,y1,x2,y2.      *)

\* QRect(topLeft, bottomRight)
QRect(p1, p2) == [x1 |-> p1.x, y1 |-> p1.y, x2 |-> p2.x, y2 |-> p2.y]

\* QRect.width() / QRect.height() / x() / y()
RectWidth(r) == r.x2 - r.x1 + 1
RectHeight(r) == r.y2 - r.y1 + 1
RectX(r) == r.x1
RectY(r) == r.y1

\* QRect.normalized() (Qt 6): a rectangle with x2 < x1 (y2 < y1) has its
\* corners swapped and moved from non-inclusive to inclusive.
Normalized(r) ==
    LET nx == IF r.x2 < r.x1 THEN [r EXCEPT !.x1 = r.x2 + 1, !.x2 = r.x1 - 1]
              ELSE r
    IN  IF nx.y2 < nx.y1 THEN [nx EXCEPT !.y1 = nx.y2 + 1, !.y2 = nx.y1 - 1]
        ELSE nx

-----------------------------------------------------------------------------
(* SelectionOverlay *)

\* The state of the overlay after construction (__init__): hidden, nothing
\* selected.
SelInit ==
    /\ ovVisible = FALSE
    /\ start_point = None
    /\ end_point = None
    /\ current_rect = None
    /\ cursor = "Arrow"
    /\ mouseGrab = FALSE
    /\ pointer = [x |-> 0, y |-> 0]
    /\ emitted = << >>

\* Mutant of showEvent: the selection state of the last gesture is kept.
ShowOverlay_NoReset(pts) ==
    /\ ~ovVisible
    /\ ovVisible' = TRUE
    /\ UNCHANGED <<start_point, end_point, current_rect>>
    /\ cursor' = "Cross"
    /\ mouseGrab' = TRUE
    /\ pointer' \in pts
    /\ emitted' = << >>

\* showEvent: reset the selection state, crosshair cursor, grab the mouse.
\* The pointer is wherever the user left it, at one of the points pts.
ShowOverlay(pts) ==
    /\ ~ovVisible
    /\ ovVisible' = TRUE
    /\ start_point' = None
    /\ end_point' = None
    /\ current_rect' = None
    /\ cursor' = "Cross"
    /\ mouseGrab' = TRUE
    /\ pointer' \in pts
    /\ emitted' = << >>

\* Mutant of hideEvent: the mouse grab is not released.
HideOverlay_NoRelease ==
    /\ ovVisible' = FALSE
    /\ mouseGrab' = mouseGrab

\* hide() on the visible overlay runs hideEvent: release the mouse grab.
HideOverlay ==
    /\ ovVisible' = FALSE
    /\ mouseGrab' = FALSE

\* paintEvent: the only state it writes is the re-normalised current_rect.
PaintOverlay ==
    /\ ovVisible
    /\ current_rect # None
    /\ current_rect' = Some(Normalized(current_rect[1]))
    /\ UNCHANGED <<ovVisible, start_point, end_point, cursor, mouseGrab,
                   pointer, emitted>>

\* mousePressEvent(button) at the current pointer position.
PressOverlay(button) ==
    /\ ovVisible
    /\ IF button = "Left"
       THEN /\ start_point' = Some(pointer)
            /\ end_point' = Some(pointer)
            /\ current_rect' = Some(Normalized(QRect(pointer, pointer)))
       ELSE UNCHANGED <<start_point, end_point, current_rect>>
    /\ UNCHANGED <<ovVisible, cursor, mouseGrab, pointer, emitted>>

\* The pointer moves to p and the overlay, which tracks the mouse, gets
\* mouseMoveEvent.
MoveOverlay(p) ==
    /\ ovVisible
    /\ pointer' = p
    /\ IF start_point # None
       THEN /\ end_point' = Some(p)
            /\ current_rect' = Some(Normalized(QRect(start_point[1], p)))
       ELSE UNCHANGED <<end_point, current_rect>>
    /\ UNCHANGED <<ovVisible, start_point, cursor, mouseGrab, emitted>>

\* The (x, y, width, height) that selection_made carries for a QRect.
Selection(r) ==
    [x |-> RectX(r), y |-> RectY(r), width |-> RectWidth(r),
     height |-> RectHeight(r)]

\* Mutant of the emission condition: the size of the final rectangle is not
\* checked.
EmitsSelection_NoSizeCheck(final_rect) == final_rect # None

\* The condition under which mouseReleaseEvent emits selection_made.
EmitsSelection(final_rect) ==
    /\ final_rect # None
    /\ RectWidth(final_rect[1]) > 0
    /\ RectHeight(final_rect[1]) > 0

\* Mutant of mouseReleaseEvent: the overlay is not hidden after the release.
ReleaseOverlay_NoHide(button) ==
    /\ ovVisible
    /\ IF button = "Left" /\ start_point # None
       THEN /\ emitted' = IF EmitsSelection(current_rect)
                          THEN Append(emitted, Selection(current_rect[1]))
                          ELSE emitted
            /\ cursor' = "Arrow"
            /\ UNCHANGED <<ovVisible, mouseGrab>>
       ELSE UNCHANGED <<ovVisible, mouseGrab, cursor, emitted>>
    /\ UNCHANGED <<start_point, end_point, current_rect, pointer>>

\* mouseReleaseEvent(button): emit the final rectangle if it has positive
\* width and height, hide the overlay, restore the cursor.
ReleaseOverlay(button) ==
    /\ ovVisible
    /\ IF button = "Left" /\ start_point # None
       THEN /\ emitted' = IF EmitsSelection(current_rect)
                          THEN Append(emitted, Selection(current_rect[1]))
                          ELSE emitted
            /\ HideOverlay
            /\ cursor' = "Arrow"
       ELSE UNCHANGED <<ovVisible, mouseGrab, cursor, emitted>>
    /\ UNCHANGED <<start_point, end_point, current_rect, pointer>>

\* The overlay's events as actions of the selector on its own.
SelFrame == UNCHANGED <<cmVars, envVars, vpVars, uiVars>>

showEvent == ShowOverlay(Points) /\ SelFrame
paintEvent == PaintOverlay /\ SelFrame
mousePressEvent == (\E b \in Buttons : PressOverlay(b)) /\ SelFrame
mouseMoveEvent == (\E p \in Points : MoveOverlay(p)) /\ SelFrame
mouseReleaseEvent == (\E b \in Buttons : ReleaseOverlay(b)) /\ SelFrame

-----------------------------------------------------------------------------
(* Environment *)

EnvInit ==
    /\ ffmpeg_on_path = TRUE
    /\ files = {}
    /\ undeletable = {}

\* The encoder binary appears on or disappears from the search path.
PathChanges ==
    /\ ffmpeg_on_path' = ~ffmpeg_on_path
    /\ UNCHANGED <<files, undeletable>>

\* The permissions of a path change: os.remove on it starts or stops failing.
PermissionChanges ==
    /\ \E p \in TempPaths :
          undeletable' = IF p \in undeletable THEN undeletable \ {p}
                         ELSE undeletable \cup {p}
    /\ UNCHANGED <<ffmpeg_on_path, files>>

-----------------------------------------------------------------------------
(* CaptureManager *)

\* The record of a CaptureManager call: what it returned and raised, the
\* signals it sent, and whether the timeout of wait(timeout=5) elapsed.
CallRecord(op, ret, raised, sigterm, sigkill, timed_out) ==
    [op |-> op, ret |-> ret, raised |-> raised,
     sigterm |-> sigterm, sigkill |-> sigkill, timed_out |-> timed_out]

\* __init__
CmInit ==
    /\ ffmpeg_process = 0
    /\ temp_output_file = "None"
    /\ procs = << >>
    /\ cm_call = CallRecord("init", "None", "None", FALSE, FALSE, FALSE)

\* _check_ffmpeg
CheckFfmpeg == ffmpeg_on_path

\* self.ffmpeg_process and self.ffmpeg_process.poll() is None
ProcessRunning(handle, ps) == handle # 0 /\ ps[handle].st = "alive"

\* Mutant of is_capturing: a stored handle counts as capturing, whether its
\* process has exited or not.
IsCapturing_HandleOnly == ffmpeg_process # 0

\* is_capturing
IsCapturing == ProcessRunning(ffmpeg_process, procs)

\* The process that Popen(ffmpeg_command, stdout=PIPE, stderr=PIPE) creates:
\* it writes to output_file, and its diagnostics go into pipes whose buffers
\* hold pipe units so far.
Spawned(output_file) == [st |-> "alive", out |-> output_file, pipe |-> 0]

\* The process is blocked in a write to a pipe whose buffer is full.
Blocked(p) == p.pipe > PipeCapacity

\* The processes ps once process i has exited: an exited process writes to
\* no file and no pipe any more.
Exited(ps, i) ==
    [ps EXCEPT ![i] = [st |-> "exited", out |-> "None", pipe |-> 0]]

\* The processes of this manager that are alive.
AliveProcs == {i \in 1..Len(procs) : procs[i].st = "alive"}

\* Mutant of start_capture: the check for a running process is missing.
StartCapture_NoRunningCheck(x, y, width, height, output_file, popen) ==
    IF ~CheckFfmpeg
    THEN /\ cm_call' = CallRecord("start_capture", "False", "None",
                                  FALSE, FALSE, FALSE)
         /\ UNCHANGED <<ffmpeg_process, temp_output_file, procs>>
    ELSE /\ temp_output_file' = output_file
         /\ IF popen = "ok"
            THEN /\ procs' = Append(procs, Spawned(output_file))
                 /\ ffmpeg_process' = Len(procs) + 1
                 /\ cm_call' = CallRecord("start_capture", "True", "None",
                                          FALSE, FALSE, FALSE)
            ELSE /\ cm_call' = CallRecord("start_capture", "False", "None",
                                          FALSE, FALSE, FALSE)
                 /\ UNCHANGED <<ffmpeg_process, procs>>

\* Mutant of start_capture: the check that the encoder is on the search path
\* is missing.
StartCapture_NoFfmpegCheck(x, y, width, height, output_file, popen) ==
    IF ProcessRunning(ffmpeg_process, procs)
    THEN /\ cm_call' = CallRecord("start_capture", "False", "None",
                                  FALSE, FALSE, FALSE)
         /\ UNCHANGED <<ffmpeg_process, temp_output_file, procs>>
    ELSE /\ temp_output_file' = output_file
         /\ IF popen = "ok"
            THEN /\ procs' = Append(procs, Spawned(output_file))
                 /\ ffmpeg_process' = Len(procs) + 1
                 /\ cm_call' = CallRecord("start_capture", "True", "None",
                                          FALSE, FALSE, FALSE)
            ELSE /\ cm_call' = CallRecord("start_capture", "False", "None",
                                          FALSE, FALSE, FALSE)
                 /\ UNCHANGED <<ffmpeg_process, procs>>

\* Mutant of start_capture: the exception of subprocess.Popen is not caught.
StartCapture_SpawnErrorRaises(x, y, width, height, output_file, popen) ==
    IF ~CheckFfmpeg \/ ProcessRunning(ffmpeg_process, procs)
    THEN /\ cm_call' = CallRecord("start_capture", "False", "None",
                                  FALSE, FALSE, FALSE)
         /\ UNCHANGED <<ffmpeg_process, temp_output_file, procs>>
    ELSE /\ temp_output_file' = output_file
         /\ IF popen = "ok"
            THEN /\ procs' = Append(procs, Spawned(output_file))
                 /\ ffmpeg_process' = Len(procs) + 1
                 /\ cm_call' = CallRecord("start_capture", "True", "None",
                                          FALSE, FALSE, FALSE)
            ELSE /\ cm_call' = CallRecord("start_capture", "None", popen,
                                          FALSE, FALSE, FALSE)
                 /\ UNCHANGED <<ffmpeg_process, procs>>

\* start_capture(x, y, width, height, output_file); popen is what
\* subprocess.Popen does: "ok", or the exception it raises.  The geometry
\* only goes into the command line of the process.
StartCapture(x, y, width, height, output_file, popen) ==
    IF ~CheckFfmpeg
    THEN /\ cm_call' = CallRecord("start_capture", "False", "None",
                                  FALSE, FALSE, FALSE)
         /\ UNCHANGED <<ffmpeg_process, temp_output_file, procs>>
    ELSE IF ProcessRunning(ffmpeg_process, procs)
    THEN /\ cm_call' = CallRecord("start_capture", "False", "None",
                                  FALSE, FALSE, FALSE)
         /\ UNCHANGED <<ffmpeg_process, temp_output_file, procs>>
    ELSE /\ temp_output_file' = output_file
         /\ IF popen = "ok"
            THEN /\ procs' = Append(procs, Spawned(output_file))
                 /\ ffmpeg_process' = Len(procs) + 1
                 /\ cm_call' = CallRecord("start_capture", "True", "None",
                                          FALSE, FALSE, FALSE)
            ELSE \* FileNotFoundError or any other Exception: caught, logged
                 /\ cm_call' = CallRecord("start_capture", "False", "None",
                                          FALSE, FALSE, FALSE)
                 /\ UNCHANGED <<ffmpeg_process, procs>>

\* Mutant of stop_capture: any stored handle is terminated, running or not.
StopCapture_NoPollCheck(exits_in_time) ==
    IF ffmpeg_process # 0
    THEN /\ procs' = Exited(procs, ffmpeg_process)
         /\ cm_call' = CallRecord("stop_capture", temp_output_file, "None",
                                  TRUE, FALSE, FALSE)
    ELSE /\ procs' = procs
         /\ cm_call' = CallRecord("stop_capture", "None", "None",
                                  FALSE, FALSE, FALSE)

\* Mutant of stop_capture: the path is returned right after terminate(),
\* without waiting for the process to exit.
StopCapture_NoWait(exits_in_time) ==
    IF ProcessRunning(ffmpeg_process, procs)
    THEN /\ procs' = procs
         /\ cm_call' = CallRecord("stop_capture", temp_output_file, "None",
                                  TRUE, FALSE, FALSE)
    ELSE /\ procs' = procs
         /\ cm_call' = CallRecord("stop_capture", "None", "None",
                                  FALSE, FALSE, FALSE)

\* stop_capture(); exits_in_time is whether the process exits within the
\* timeout of wait(timeout=5) after terminate().  Popen.wait(timeout) raises
\* TimeoutExpired when the timeout elapses with the process still running.
StopCapture(exits_in_time) ==
    IF ProcessRunning(ffmpeg_process, procs)
    THEN LET p == ffmpeg_process
             \* terminate(); wait(timeout=5)
             waited == IF exits_in_time
                       THEN [raised |-> "None",
                             procs |-> Exited(procs, p)]
                       ELSE [raised |-> "TimeoutExpired", procs |-> procs]
         IN  IF waited.raised # "None"
             THEN \* the exception leaves stop_capture
                  /\ procs' = waited.procs
                  /\ cm_call' = CallRecord("stop_capture", "None",
                                           waited.raised, TRUE, FALSE,
                                           TRUE)
             ELSE IF ProcessRunning(p, waited.procs)
             THEN \* kill(); wait()
                  /\ procs' = Exited(waited.procs, p)
                  /\ cm_call' = CallRecord("stop_capture", temp_output_file,
                                           "None", TRUE, TRUE, TRUE)
             ELSE /\ procs' = waited.procs
                  /\ cm_call' = CallRecord("stop_capture", temp_output_file,
                                           "None", TRUE, FALSE, FALSE)
    ELSE /\ procs' = procs
         /\ cm_call' = CallRecord("stop_capture", "None", "None",
                                  FALSE, FALSE, FALSE)

\* The capture process exits on its own (the encoder fails or is killed from
\* outside); nothing in the program watches for it.
ProcessExits ==
    /\ \E i \in AliveProcs : procs' = Exited(procs, i)
    /\ UNCHANGED <<ffmpeg_process, temp_output_file, cm_call>>

\* A running capture process writes a unit of diagnostics to its stdout or
\* stderr pipe.  No code of the program reads from these pipes: the unit
\* stays in the buffer, and the write that finds the buffer full blocks.
ProcessLogs ==
    /\ \E i \in AliveProcs :
          /\ ~Blocked(procs[i])
          /\ procs' = [procs EXCEPT ![i].pipe = @ + 1]
    /\ UNCHANGED <<ffmpeg_process, temp_output_file, cm_call>>

\* A running capture process that is not blocked creates its output file.
ProcessWrites ==
    /\ \E i \in AliveProcs :
          /\ ~Blocked(procs[i])
          /\ procs[i].out \notin files
          /\ files' = files \cup {procs[i].out}
    /\ UNCHANGED <<ffmpeg_on_path, undeletable>>

PopenOutcomes == {"ok", "FileNotFoundError", "OSError"}

\* The CaptureManager driven directly by a caller.
start_capture ==
    /\ Len(procs) < MaxSpawns
    /\ \E width \in Sizes, output_file \in TempPaths, popen \in PopenOutcomes :
            StartCapture(0, 0, width, 1, output_file, popen)
    /\ UNCHANGED <<selVars, envVars, vpVars, uiVars>>

stop_capture ==
    /\ \E exits_in_time \in BOOLEAN : StopCapture(exits_in_time)
    /\ UNCHANGED <<ffmpeg_process, temp_output_file>>
    /\ UNCHANGED <<selVars, envVars, vpVars, uiVars>>

-----------------------------------------------------------------------------
(* VideoProcessor *)

CrfLow == 28
CrfMedium == 23
CrfHigh == 18

\* Mutant of quality_settings: the values of Low and High are exchanged.
quality_settings_Swapped ==
    [q \in {"Low", "Medium", "High"} |->
        [crf |-> CASE q = "Low" -> CrfHigh
                   [] q = "Medium" -> CrfMedium
                   [] q = "High" -> CrfLow]]

\* self.quality_settings
quality_settings ==
    [q \in {"Low", "Medium", "High"} |->
        [crf |-> CASE q = "Low" -> CrfLow
                   [] q = "Medium" -> CrfMedium
                   [] q = "High" -> CrfHigh]]

\* Quality levels a caller may pass: the three recognized ones and one that
\* is not.
QualityLevels == {"Low", "Medium", "High", "Extreme"}

\* What the external encoder run of re_encode_video does: it exits with 0
\* having written the destination, exits with another code (with or without
\* a partial destination), or subprocess.run raises.  The encoder refuses to
\* write over its own input.
RunOutcomes(input_file, output_file) ==
    {"exit1", "FileNotFoundError", "OSError"}
        \cup (IF input_file # output_file THEN {"exit0", "exit1_partial"}
              ELSE {})

\* The record of a VideoProcessor call: runs counts the external encoder
\* runs it started, crf is the -crf value it passed (0: none).
VpRecord(op, ret, raised, runs, crf, fs) ==
    [op |-> op, ret |-> ret, raised |-> raised, runs |-> runs, crf |-> crf,
     files |-> fs]

VpInit == vp_call = [op |-> "init", ret |-> "None", raised |-> "None",
                     runs |-> 0, crf |-> 0, path |-> "None",
                     quality |-> "None"]

\* Mutant of re_encode_video: an unrecognized quality level falls back to
\* the Medium setting instead of being refused.
ReEncodeVideo_DefaultQuality(fs, input_file, output_file, quality_level, run) ==
    IF ~CheckFfmpeg \/ input_file \notin fs
    THEN VpRecord("re_encode_video", "False", "None", 0, 0, fs)
    ELSE LET crf_value == IF quality_level \in DOMAIN quality_settings
                          THEN quality_settings[quality_level].crf
                          ELSE CrfMedium
         IN  IF run = "exit0"
             THEN VpRecord("re_encode_video", "True", "None", 1, crf_value,
                           fs \cup {output_file})
             ELSE VpRecord("re_encode_video", "False", "None", 1, crf_value,
                           fs)

\* Mutant of re_encode_video: the source file is not checked for
\* existence.
ReEncodeVideo_NoSourceCheck(fs, input_file, output_file, quality_level, run) ==
    IF ~CheckFfmpeg \/ quality_level \notin DOMAIN quality_settings
    THEN VpRecord("re_encode_video", "False", "None", 0, 0, fs)
    ELSE LET crf_value == quality_settings[quality_level].crf
         IN  CASE run = "exit0" ->
                    VpRecord("re_encode_video", "True", "None", 1, crf_value,
                             fs \cup {output_file})
               [] run = "exit1_partial" ->
                    VpRecord("re_encode_video", "False", "None", 1, crf_value,
                             fs \cup {output_file})
               [] OTHER ->
                    VpRecord("re_encode_video", "False", "None", 1, crf_value,
                             fs)

\* Mutant of re_encode_video: subprocess.run is called without
\* check=True, so a non-zero exit code is not an error.
ReEncodeVideo_IgnoresExitCode(fs, input_file, output_file, quality_level, run) ==
    IF ~CheckFfmpeg \/ input_file \notin fs
          \/ quality_level \notin DOMAIN quality_settings
    THEN VpRecord("re_encode_video", "False", "None", 0, 0, fs)
    ELSE LET crf_value == quality_settings[quality_level].crf
         IN  CASE run = "exit0" ->
                    VpRecord("re_encode_video", "True", "None", 1, crf_value,
                             fs \cup {output_file})
               [] run = "exit1_partial" ->
                    VpRecord("re_encode_video", "True", "None", 1, crf_value,
                             fs \cup {output_file})
               [] OTHER ->
                    VpRecord("re_encode_video", "False", "None", 1, crf_value,
                             fs)

\* Mutant of re_encode_video: the source file is removed after a
\* successful run.
ReEncodeVideo_RemovesSource(fs, input_file, output_file, quality_level, run) ==
    IF ~CheckFfmpeg \/ input_file \notin fs
          \/ quality_level \notin DOMAIN quality_settings
    THEN VpRecord("re_encode_video", "False", "None", 0, 0, fs)
    ELSE LET crf_value == quality_settings[quality_level].crf
         IN  CASE run = "exit0" ->
                    VpRecord("re_encode_video", "True", "None", 1, crf_value,
                             (fs \cup {output_file}) \ {input_file})
               [] run = "exit1_partial" ->
                    VpRecord("re_encode_video", "False", "None", 1, crf_value,
                             fs \cup {output_file})
               [] OTHER ->
                    VpRecord("re_encode_video", "False", "None", 1, crf_value,
                             fs)

\* re_encode_video(input_file, output_file, quality_level) on the file
\* system fs: the call's record, with the file system it leaves.
ReEncodeVideo(fs, input_file, output_file, quality_level, run) ==
    IF ~CheckFfmpeg
    THEN VpRecord("re_encode_video", "False", "None", 0, 0, fs)
    ELSE IF input_file \notin fs
    THEN VpRecord("re_encode_video", "False", "None", 0, 0, fs)
    ELSE IF quality_level \notin DOMAIN quality_settings
    THEN VpRecord("re_encode_video", "False", "None", 0, 0, fs)
    ELSE LET crf_value == quality_settings[quality_level].crf
         IN  CASE run = "exit0" ->
                    VpRecord("re_encode_video", "True", "None", 1, crf_value,
                             fs \cup {output_file})
               [] run = "exit1_partial" ->
                    \* CalledProcessError: caught, logged
                    VpRecord("re_encode_video", "False", "None", 1, crf_value,
                             fs \cup {output_file})
               [] OTHER ->
                    \* CalledProcessError, FileNotFoundError or any other
                    \* Exception: caught, logged
                    VpRecord("re_encode_video", "False", "None", 1, crf_value,
                             fs)

\* Mutant of delete_temp_file: the failure of os.remove is not caught.
DeleteTempFile_Raises(fs, file_path) ==
    IF file_path \in fs
    THEN IF file_path \in undeletable
         THEN VpRecord("delete_temp_file", "None", "OSError", 0, 0, fs)
         ELSE VpRecord("delete_temp_file", "None", "None", 0, 0,
                       fs \ {file_path})
    ELSE VpRecord("delete_temp_file", "None", "None", 0, 0, fs)

\* delete_temp_file(file_path) on the file system fs.
DeleteTempFile(fs, file_path) ==
    IF file_path \in fs
    THEN IF file_path \in undeletable
         THEN \* os.remove raises: caught, logged
              VpRecord("delete_temp_file", "None", "None", 0, 0, fs)
         ELSE VpRecord("delete_temp_file", "None", "None", 0, 0,
                       fs \ {file_path})
    ELSE VpRecord("delete_temp_file", "None", "None", 0, 0, fs)

\* A call's record as vp_call keeps it: with its path and quality arguments
\* in place of the file system.
Kept(rec, path, quality) ==
    [op |-> rec.op, ret |-> rec.ret, raised |-> rec.raised,
     runs |-> rec.runs, crf |-> rec.crf, path |-> path, quality |-> quality]

\* The VideoProcessor driven directly by a caller.
\* One call of re_encode_video with its arguments, run being what the
\* encoder does if it is started.
ReEncodeCall(input_file, output_file, quality_level, run) ==
    LET r == ReEncodeVideo(files, input_file, output_file, quality_level, run)
    IN  /\ files' = r.files
        /\ vp_call' = Kept(r, input_file, quality_level)

re_encode_video ==
    /\ \E input_file \in Paths, output_file \in Paths,
          quality_level \in QualityLevels :
          \E run \in RunOutcomes(input_file, output_file) :
             ReEncodeCall(input_file, output_file, quality_level, run)
    /\ UNCHANGED <<ffmpeg_on_path, undeletable>>
    /\ UNCHANGED <<selVars, cmVars, uiVars>>

delete_temp_file ==
    /\ \E file_path \in Paths :
          LET r == DeleteTempFile(files, file_path)
          IN  /\ files' = r.files
              /\ vp_call' = Kept(r, file_path, "None")
    /\ UNCHANGED <<ffmpeg_on_path, undeletable>>
    /\ UNCHANGED <<selVars, cmVars, uiVars>>

\* Some program creates a file (a capture process, an earlier run).
FileAppears ==
    /\ \E p \in Paths : p \notin files /\ files' = files \cup {p}
    /\ UNCHANGED <<ffmpeg_on_path, undeletable>>

-----------------------------------------------------------------------------
(* PostCaptureDialog *)

\* __init__ and _load_video on an existing file: the dialog of dialog.exec().
OpenDialog(path) ==
    /\ dlg' = "open"
    /\ temp_video_path' = path
    /\ selected_quality' = "Medium"
    /\ encoding' = "None"

\* Mutant of accept(): the dialog is accepted without deleting the temp
\* file.
DialogAccept_NoDelete(fs) ==
    /\ files' = fs
    /\ vp_call' = vp_call
    /\ dlg' = "closed"

\* accept(): delete the temp file, then QDialog.accept() ends exec().
DialogAccept(fs) ==
    LET r == DeleteTempFile(fs, temp_video_path)
    IN  /\ files' = r.files
        /\ vp_call' = Kept(r, temp_video_path, "None")
        /\ dlg' = "closed"

\* reject(): delete the temp file, then QDialog.reject() ends exec().
DialogReject(fs) ==
    LET r == DeleteTempFile(fs, temp_video_path)
    IN  /\ files' = r.files
        /\ vp_call' = Kept(r, temp_video_path, "None")
        /\ dlg' = "closed"

\* _set_quality(quality), from the three radio buttons.
SetQuality(quality) ==
    /\ selected_quality' = quality
    /\ UNCHANGED <<dlg, temp_video_path, encoding, files, vp_call>>

\* _save_video up to its call of re_encode_video: file_name is what the
\* file chooser returns ("" when it is cancelled).  The call is made in the
\* slot itself and subprocess.run blocks until the encoder has exited.
SaveVideoCalls(file_name) ==
    /\ encoding' = IF file_name # "" THEN file_name ELSE "None"
    /\ UNCHANGED <<dlg, files, vp_call>>

\* Mutant of _save_video: the temp file is deleted when the re-encoding
\* failed.
SaveVideo_DeletesOnFailure(file_name, run) ==
    LET r == ReEncodeVideo(files, temp_video_path, file_name,
                           selected_quality, run)
    IN  /\ encoding' = "None"
        /\ IF r.ret = "True"
           THEN DialogAccept(r.files)
           ELSE /\ files' = r.files \ {temp_video_path}
                /\ vp_call' = Kept(r, temp_video_path, selected_quality)
                /\ UNCHANGED dlg

\* _save_video from the return of re_encode_video(temp_video_path,
\* file_name, selected_quality) on: run is what the encoder did.
SaveVideo(file_name, run) ==
    LET r == ReEncodeVideo(files, temp_video_path, file_name,
                           selected_quality, run)
    IN  /\ encoding' = "None"
        /\ IF r.ret = "True"
           THEN DialogAccept(r.files)
           ELSE /\ files' = r.files
                /\ vp_call' = Kept(r, temp_video_path, selected_quality)
                /\ UNCHANGED dlg

\* _discard_video: confirmed is the answer to the question box.
DiscardVideo(confirmed) ==
    IF confirmed
    THEN DialogReject(files)
    ELSE UNCHANGED <<dlg, files, vp_call>>

-----------------------------------------------------------------------------
(* MainWindow *)

\* Whether main_window.py imports shutil, which _cleanup_temp_dir uses: it
\* imports os and tempfile only.
ShutilImported == FALSE

\* __init__ and main(): the window is shown, nothing selected or recording.
MwInit ==
    /\ is_recording = FALSE
    /\ selected_rect = None
    /\ current_temp_file = "None"
    /\ mainVisible = TRUE
    /\ btn_select_area = TRUE
    /\ btn_record = FALSE
    /\ btn_stop = FALSE
    /\ temp_dir_exists = TRUE
    /\ app = "running"

DlgInit ==
    /\ dlg = "closed"
    /\ temp_video_path = "None"
    /\ selected_quality = "Medium"
    /\ encoding = "None"

\* _update_ui_state, for the values of is_recording and selected_rect it
\* reads.
UpdateUiState(recording, rect) ==
    /\ btn_select_area' = ~recording
    /\ btn_record' = (~recording /\ rect # None)
    /\ btn_stop' = recording

\* The main window can take a click: it is shown and no modal dialog or
\* overlay is in front of it.
MainWindowActive ==
    app = "running" /\ mainVisible /\ dlg = "closed" /\ ~ovVisible

\* _start_selection (Select Area clicked)
StartSelection ==
    /\ MainWindowActive
    /\ btn_select_area
    /\ IF is_recording
       THEN UNCHANGED <<selVars, mainVisible>>
       ELSE /\ mainVisible' = FALSE
            /\ ShowOverlay(AppPoints)
    /\ UNCHANGED <<is_recording, selected_rect, current_temp_file,
                   btn_select_area, btn_record, btn_stop, temp_dir_exists,
                   app>>
    /\ UNCHANGED <<cmVars, envVars, vpVars, dlgVars>>

\* _handle_selection_made(x, y, width, height), the slot of selection_made
HandleSelectionMade(sel) ==
    /\ selected_rect' = Some(sel)
    /\ mainVisible' = TRUE
    /\ UpdateUiState(is_recording, Some(sel))
    /\ UNCHANGED <<is_recording, current_temp_file, temp_dir_exists, app>>

\* _start_record (Record clicked): output_file is the timestamped temp file
\* name, popen what subprocess.Popen does.
StartRecord(output_file, popen) ==
    /\ MainWindowActive
    /\ btn_record
    /\ IF is_recording \/ selected_rect = None
       THEN UNCHANGED <<cmVars, is_recording, current_temp_file,
                        btn_select_area, btn_record, btn_stop>>
       ELSE /\ current_temp_file' = output_file
            /\ IF ~CheckFfmpeg
               THEN UNCHANGED <<cmVars, is_recording, btn_select_area,
                                btn_record, btn_stop>>
               ELSE /\ StartCapture(selected_rect[1].x, selected_rect[1].y,
                                    selected_rect[1].width,
                                    selected_rect[1].height,
                                    output_file, popen)
                    /\ is_recording' = (cm_call'.ret = "True")
                    /\ UpdateUiState(is_recording', selected_rect)
    /\ UNCHANGED <<selected_rect, mainVisible, temp_dir_exists, app>>
    /\ UNCHANGED <<selVars, envVars, vpVars, dlgVars>>

\* _stop_record (Stop clicked), up to dialog.exec() or to its end.  An
\* exception that leaves the slot ends the application (PyQt6 calls
\* qFatal() for an unhandled exception in a slot).
StopRecord(exits_in_time) ==
    /\ MainWindowActive
    /\ btn_stop
    /\ IF ~is_recording
       THEN UNCHANGED <<cmVars, mwVars, dlgVars>>
       ELSE /\ is_recording' = FALSE
            /\ UpdateUiState(FALSE, selected_rect)
            /\ StopCapture(exits_in_time)
            /\ UNCHANGED <<ffmpeg_process, temp_output_file>>
            /\ IF cm_call'.raised # "None"
               THEN /\ app' = "aborted"
                    /\ UNCHANGED <<current_temp_file, dlgVars>>
               ELSE IF cm_call'.ret # "None" /\ cm_call'.ret \in files
               THEN /\ OpenDialog(cm_call'.ret)
                    /\ UNCHANGED <<current_temp_file, app>>
               ELSE /\ current_temp_file' = "None"
                    /\ UNCHANGED <<app, dlgVars>>
            /\ UNCHANGED <<selected_rect, mainVisible, temp_dir_exists>>
    /\ UNCHANGED <<selVars, envVars, vpVars>>

\* The end of _stop_record once dialog.exec() has returned.
AfterDialog == current_temp_file' = "None"

\* _cleanup_temp_dir: shutil.rmtree inside try/except Exception.
CleanupTempDir ==
    IF temp_dir_exists
    THEN IF ShutilImported
         THEN temp_dir_exists' = FALSE
         ELSE \* NameError: caught, logged
              temp_dir_exists' = temp_dir_exists
    ELSE temp_dir_exists' = temp_dir_exists

\* Mutant of closeEvent: a confirmed exit does not stop the capture.
CloseEvent_NoStop(confirmed, exits_in_time) ==
    /\ MainWindowActive
    /\ IF IsCapturing /\ ~confirmed
       THEN UNCHANGED <<temp_dir_exists, app>>
       ELSE /\ CleanupTempDir
            /\ app' = "closed"
    /\ UNCHANGED cmVars
    /\ UNCHANGED <<is_recording, selected_rect, current_temp_file,
                   mainVisible, btn_select_area, btn_record, btn_stop>>
    /\ UNCHANGED <<selVars, envVars, vpVars, dlgVars>>

\* closeEvent: confirmed is the answer to the question box.
CloseEvent(confirmed, exits_in_time) ==
    /\ MainWindowActive
    /\ IF IsCapturing
       THEN IF confirmed
            THEN /\ StopCapture(exits_in_time)
                 /\ UNCHANGED <<ffmpeg_process, temp_output_file>>
                 /\ IF cm_call'.raised # "None"
                    THEN /\ app' = "aborted"
                         /\ UNCHANGED temp_dir_exists
                    ELSE /\ CleanupTempDir
                         /\ app' = "closed"
            ELSE UNCHANGED <<cmVars, temp_dir_exists, app>>
       ELSE /\ CleanupTempDir
            /\ app' = "closed"
            /\ UNCHANGED cmVars
    /\ UNCHANGED <<is_recording, selected_rect, current_temp_file,
                   mainVisible, btn_select_area, btn_record, btn_stop>>
    /\ UNCHANGED <<selVars, envVars, vpVars, dlgVars>>

-----------------------------------------------------------------------------
(* The application: the handlers as the event loop runs them *)

_start_selection == StartSelection

_start_record ==
    /\ Len(procs) < MaxSpawns
    /\ \E output_file \in TempPaths, popen \in PopenOutcomes :
          StartRecord(output_file, popen)

_stop_record == \E exits_in_time \in BOOLEAN : StopRecord(exits_in_time)

closeEvent ==
    \E confirmed \in BOOLEAN, exits_in_time \in BOOLEAN :
        CloseEvent(confirmed, exits_in_time)

\* The overlay's mouse events; a release that emits selection_made runs the
\* slot _handle_selection_made before the overlay hides.
OverlayFrame == UNCHANGED <<cmVars, envVars, vpVars, dlgVars>>

overlayPaint == app = "running" /\ PaintOverlay /\ OverlayFrame /\ UNCHANGED mwVars

overlayPress ==
    /\ app = "running"
    /\ \E b \in Buttons : PressOverlay(b)
    /\ OverlayFrame /\ UNCHANGED mwVars

overlayMove ==
    /\ app = "running"
    /\ \E p \in AppPoints : MoveOverlay(p)
    /\ OverlayFrame /\ UNCHANGED mwVars

overlayRelease ==
    /\ app = "running"
    /\ \E b \in Buttons : ReleaseOverlay(b)
    /\ IF emitted' # emitted
       THEN HandleSelectionMade(emitted'[Len(emitted')])
       ELSE UNCHANGED mwVars
    /\ OverlayFrame

\* The dialog's handlers; when one ends dialog.exec(), _stop_record resumes.
DialogFrame ==
    /\ IF dlg' = "closed" THEN AfterDialog ELSE UNCHANGED current_temp_file
    /\ UNCHANGED <<is_recording, selected_rect, mainVisible, btn_select_area,
                   btn_record, btn_stop, temp_dir_exists, app>>
    /\ UNCHANGED <<selVars, cmVars, ffmpeg_on_path, undeletable>>

\* The dialog can take a click: dialog.exec() runs and the thread of the
\* event loop is not inside a re_encode_video call.
DialogActive == app = "running" /\ dlg = "open" /\ encoding = "None"

_set_quality ==
    /\ DialogActive
    /\ \E q \in DOMAIN quality_settings : SetQuality(q)
    /\ DialogFrame

_save_video ==
    /\ DialogActive
    /\ \E file_name \in DestPaths \cup {"", temp_video_path} :
          SaveVideoCalls(file_name)
    /\ UNCHANGED <<temp_video_path, selected_quality>>
    /\ DialogFrame

\* re_encode_video returns to _save_video, which runs to its end.
_save_video_returns ==
    /\ app = "running" /\ dlg = "open" /\ encoding # "None"
    /\ \E run \in RunOutcomes(temp_video_path, encoding) :
          SaveVideo(encoding, run)
    /\ UNCHANGED <<temp_video_path, selected_quality>>
    /\ DialogFrame

_discard_video ==
    /\ DialogActive
    /\ \E confirmed \in BOOLEAN : DiscardVideo(confirmed)
    /\ UNCHANGED <<temp_video_path, selected_quality, encoding>>
    /\ DialogFrame

\* The dialog is closed from its title bar or with Escape: QDialog calls
\* reject().
reject ==
    /\ DialogActive
    /\ DialogReject(files)
    /\ UNCHANGED <<temp_video_path, selected_quality, encoding>>
    /\ DialogFrame

-----------------------------------------------------------------------------
(* Specifications *)

Init == SelInit /\ CmInit /\ EnvInit /\ VpInit /\ MwInit /\ DlgInit

\* The region selector on its own.
SelNext ==
    \/ showEvent
    \/ paintEvent
    \/ mousePressEvent
    \/ mouseMoveEvent
    \/ mouseReleaseEvent

SpecSelector == Init /\ [][SelNext]_vars

\* The capture manager on its own, with its processes.
CmNext ==
    \/ start_capture
    \/ stop_capture
    \/ ProcessExits /\ UNCHANGED <<selVars, envVars, vpVars, uiVars>>
    \/ ProcessWrites /\ UNCHANGED <<selVars, cmVars, vpVars, uiVars>>
    \/ ProcessLogs /\ UNCHANGED <<selVars, envVars, vpVars, uiVars>>
    \/ PathChanges /\ UNCHANGED <<selVars, cmVars, vpVars, uiVars>>

SpecCapture == Init /\ [][CmNext]_vars

\* The video processor on its own, with the file system.
VpNext ==
    \/ re_encode_video
    \/ delete_temp_file
    \/ FileAppears /\ UNCHANGED <<selVars, cmVars, vpVars, uiVars>>
    \/ PermissionChanges /\ UNCHANGED <<selVars, cmVars, vpVars, uiVars>>
    \/ PathChanges /\ UNCHANGED <<selVars, cmVars, vpVars, uiVars>>

SpecTranscode == Init /\ [][VpNext]_vars

\* The search path and the permissions are read by the handlers of the main
\* window and of the dialog only: a change while the overlay is up or after
\* the application has ended is the same as one before the overlay came up.
HandlersRun == app = "running" /\ ~ovVisible

\* The application: main window, overlay, capture manager, dialog and the
\* environment they run in.  The diagnostics of the capture process are left
\* out: the handlers see a blocked process as a running one (poll() is None
\* for both), and a process that does not exit in time is a case of
\* _stop_record and closeEvent already.
Next ==
    \/ _start_selection
    \/ overlayPaint
    \/ overlayPress
    \/ overlayMove
    \/ overlayRelease
    \/ _start_record
    \/ _stop_record
    \/ _set_quality
    \/ _save_video
    \/ _save_video_returns
    \/ _discard_video
    \/ reject
    \/ closeEvent
    \/ ProcessExits /\ UNCHANGED <<selVars, envVars, vpVars, uiVars>>
    \/ ProcessWrites /\ UNCHANGED <<selVars, cmVars, vpVars, uiVars>>
    \/ HandlersRun /\ PathChanges
                   /\ UNCHANGED <<selVars, cmVars, vpVars, uiVars>>
    \/ HandlersRun /\ PermissionChanges
                   /\ UNCHANGED <<selVars, cmVars, vpVars, uiVars>>

Spec == Init /\ [][Next]_vars

-----------------------------------------------------------------------------
(* Properties of the capture manager *)

\* C1: a start_capture call made while the stored process is still running
\* returns False without raising, spawns nothing and leaves the handle and
\* the stored temp path as they were: exactly one process runs afterwards.
C1_SecondStartRefused ==
    [][(start_capture /\ IsCapturing) =>
          /\ cm_call'.ret = "False"
          /\ cm_call'.raised = "None"
          /\ procs' = procs
          /\ ffmpeg_process' = ffmpeg_process
          /\ temp_output_file' = temp_output_file
          /\ Cardinality(AliveProcs') = 1]_vars

\* A start_capture call was refused and the process of the earlier call
\* still runs.
C1_Witness ==
    /\ cm_call.op = "start_capture"
    /\ cm_call.ret = "False"
    /\ ffmpeg_on_path
    /\ IsCapturing
    /\ Cardinality(AliveProcs) = 1

\* C2: a stop_capture call whose graceful timeout elapses with the process
\* still running sends the forced kill and returns the stored temp path
\* without raising.
C2_TimeoutEscalatesToKill ==
    (cm_call.op = "stop_capture" /\ cm_call.timed_out) =>
        /\ cm_call.sigkill
        /\ cm_call.raised = "None"
        /\ cm_call.ret \in TempPaths

\* C3: stop_capture on a session with no running process returns None, does
\* not raise, sends no signal and changes nothing of the session.
C3_StopOnIdleIsNoOp ==
    [][(stop_capture /\ ~IsCapturing) =>
          /\ cm_call'.ret = "None"
          /\ cm_call'.raised = "None"
          /\ ~cm_call'.sigterm
          /\ ~cm_call'.sigkill
          /\ UNCHANGED <<ffmpeg_process, temp_output_file, procs>>]_vars

\* stop_capture was called on a session whose process had already exited.
C3_Witness ==
    /\ ffmpeg_process # 0
    /\ ~IsCapturing
    /\ cm_call = CallRecord("stop_capture", "None", "None",
                            FALSE, FALSE, FALSE)

\* C10: at most one process spawned by the manager is alive, and it is the
\* one the stored handle names.
C10_AtMostOneProcessAlive ==
    /\ Cardinality(AliveProcs) <= 1
    /\ AliveProcs \subseteq {ffmpeg_process}

\* A second process has been spawned after the first one exited.
C10_Witness ==
    /\ Len(procs) = 2
    /\ procs[1].st = "exited"
    /\ procs[2].st = "alive"

C12_IsCapturingIffProcessAlive ==
    /\ ~IsCapturing
    /\ [][/\ IsCapturing' <=> AliveProcs' # {}
          /\ (start_capture /\ AliveProcs = {} /\ cm_call'.ret = "False")
                => ~IsCapturing'
          /\ (stop_capture /\ cm_call'.ret # "None") => ~IsCapturing'
          /\ ProcessExits => ~IsCapturing']_vars

\* The process of a successful start_capture has exited on its own, with no
\* stop_capture call: is_capturing() is False again.
C12_Witness ==
    /\ cm_call.op = "start_capture"
    /\ cm_call.ret = "True"
    /\ ffmpeg_process # 0
    /\ procs[ffmpeg_process].st = "exited"
    /\ ~IsCapturing

\* C13: a start_capture call made while the encoder is not on the search
\* path returns False without raising, creates no process, leaves the handle
\* and the stored temp path as they were, and an idle session stays idle.
C13_ToolMissingNoSpawn ==
    [][(start_capture /\ ~ffmpeg_on_path) =>
          /\ cm_call'.ret = "False"
          /\ cm_call'.raised = "None"
          /\ UNCHANGED <<procs, ffmpeg_process, temp_output_file>>
          /\ AliveProcs = {} => ~IsCapturing']_vars

\* The first start_capture call was made with the encoder missing: nothing
\* was spawned and no temp path was stored.
C13_Witness ==
    /\ cm_call.op = "start_capture"
    /\ cm_call.ret = "False"
    /\ ~ffmpeg_on_path
    /\ procs = << >>
    /\ ffmpeg_process = 0
    /\ temp_output_file = "None"

\* C14: a start_capture call that passes its checks and whose spawn raises
\* (no process is created) returns False without raising and leaves the
\* handle as it was, so is_capturing() is False; a stop_capture call that
\* follows a failed start_capture with nothing running returns None.
C14_SpawnFailureStaysIdle ==
    [][/\ (start_capture /\ CheckFfmpeg /\ AliveProcs = {} /\ procs' = procs) =>
             /\ cm_call'.ret = "False"
             /\ cm_call'.raised = "None"
             /\ ffmpeg_process' = ffmpeg_process
             /\ ~IsCapturing'
       /\ (stop_capture /\ cm_call.op = "start_capture"
               /\ cm_call.ret # "True" /\ AliveProcs = {}) =>
             /\ cm_call'.ret = "None"
             /\ cm_call'.raised = "None"]_vars

\* stop_capture was called after the only start_capture call failed to
\* spawn: a temp path was stored, no handle was, and no path came back.
C14_Witness ==
    /\ cm_call.op = "stop_capture"
    /\ cm_call.ret = "None"
    /\ cm_call.raised = "None"
    /\ temp_output_file \in TempPaths
    /\ ffmpeg_process = 0
    /\ procs = << >>

-----------------------------------------------------------------------------
(* Properties of the region selector *)

\* A gesture has ended: the primary button was pressed and released, which
\* hid the overlay.
GestureEnded == ~ovVisible /\ start_point # None

Abs(n) == IF n < 0 THEN -n ELSE n
Min(a, b) == IF a < b THEN a ELSE b

\* C4: a gesture that ends where it was anchored (a pure click) emits no
\* selection.
C4_PureClickEmitsNothing ==
    (GestureEnded /\ end_point = start_point) => emitted = << >>

\* C5: a gesture from anchor A to release point B with dx # 0 and dy # 0
\* emits the bounding box of A and B: x = min, y = min, width = |dx|,
\* height = |dy| (so the same rectangle for A to B and for B to A).
C5_EmitsBoundingBox ==
    LET a == start_point[1]
        b == end_point[1]
    IN  (GestureEnded /\ a.x # b.x /\ a.y # b.y) =>
            emitted = << [x |-> Min(a.x, b.x), y |-> Min(a.y, b.y),
                          width |-> Abs(b.x - a.x),
                          height |-> Abs(b.y - a.y)] >>

\* C6: between a showEvent and the hide that ends the gesture selection_made
\* is emitted at most once, and exactly once iff the gesture ended with a
\* candidate rectangle of positive width and height.
C6_OneEmissionPerGesture ==
    /\ Len(emitted) <= 1
    /\ ovVisible => emitted = << >>
    /\ GestureEnded =>
          (Len(emitted) = 1 <=>
              /\ current_rect # None
              /\ current_rect[1].x2 - current_rect[1].x1 + 1 > 0
              /\ current_rect[1].y2 - current_rect[1].y1 + 1 > 0)
    /\ (GestureEnded /\ Len(emitted) = 1) =>
          /\ emitted[1].x = current_rect[1].x1
          /\ emitted[1].y = current_rect[1].y1

\* A gesture that dragged over several pixels has ended with one emission.
C6_Witness ==
    /\ GestureEnded
    /\ end_point # start_point
    /\ Len(emitted) = 1

-----------------------------------------------------------------------------
(* Properties of the video processor *)

\* C7: re_encode_video with a quality level outside Low, Medium, High
\* returns False without raising and starts no external encoder run, whatever
\* the paths.
C7_InvalidQualityNoSpawn ==
    (vp_call.op = "re_encode_video"
       /\ vp_call.quality \notin {"Low", "Medium", "High"}) =>
        /\ vp_call.ret = "False"
        /\ vp_call.raised = "None"
        /\ vp_call.runs = 0

\* re_encode_video was called with "Extreme" on an existing source with the
\* encoder resolvable.
C7_Witness ==
    /\ vp_call.op = "re_encode_video"
    /\ vp_call.quality = "Extreme"
    /\ vp_call.path \in files
    /\ ffmpeg_on_path

\* C8: delete_temp_file never raises; it removes an existing file, does
\* nothing on a missing one, leaves the file when os.remove fails; a second
\* call on the same path right after changes nothing more.
C8_DeleteBestEffortIdempotent ==
    [][\A p \in Paths :
          (delete_temp_file /\ vp_call'.path = p) =>
              /\ vp_call'.raised = "None"
              /\ (p \in files /\ p \notin undeletable) => files' = files \ {p}
              /\ (p \notin files \/ p \in undeletable) => files' = files
              /\ DeleteTempFile(files', p).raised = "None"
              /\ DeleteTempFile(files', p).files = files']_vars

\* delete_temp_file was called on an existing file that os.remove refuses
\* to remove: the file is still there and nothing was raised.
C8_Witness ==
    /\ vp_call.op = "delete_temp_file"
    /\ vp_call.raised = "None"
    /\ vp_call.path \in files
    /\ vp_call.path \in undeletable

\* C16: whenever re_encode_video starts the encoder, the quality level is
\* one of the three recognized ones and the -crf value passed is its table
\* value: 28 for Low, 23 for Medium, 18 for High.
C16_CrfIsTableValue ==
    (vp_call.op = "re_encode_video" /\ vp_call.runs > 0) =>
        \/ vp_call.quality = "Low" /\ vp_call.crf = 28
        \/ vp_call.quality = "Medium" /\ vp_call.crf = 23
        \/ vp_call.quality = "High" /\ vp_call.crf = 18

\* A re-encoding at Low quality succeeded.
C16_Witness ==
    /\ vp_call.op = "re_encode_video"
    /\ vp_call.quality = "Low"
    /\ vp_call.ret = "True"
    /\ vp_call.runs = 1

\* The step leaves the record of a re_encode_video call on source i at
\* quality q.
ReEncodeOf(i, q) ==
    /\ vp_call'.op = "re_encode_video"
    /\ vp_call'.path = i
    /\ vp_call'.quality = q
    /\ UNCHANGED <<ffmpeg_on_path, undeletable>>

\* C17: a re_encode_video call whose source does not exist, or made while
\* the encoder is not on the search path, returns False without raising,
\* starts no encoder and leaves the files as they were; the encoder is
\* started only when the source exists, the encoder is resolvable and the
\* quality level is recognized.
C17_PreconditionFailureNoSpawn ==
    [][\A i \in Paths, q \in QualityLevels :
          ReEncodeOf(i, q) => \A o \in Paths : \A run \in RunOutcomes(i, o) :
             ReEncodeCall(i, o, q, run) =>
                /\ (i \notin files \/ ~ffmpeg_on_path) =>
                      /\ vp_call'.ret = "False"
                      /\ vp_call'.raised = "None"
                      /\ vp_call'.runs = 0
                      /\ files' = files
                /\ vp_call'.runs > 0 =>
                      /\ i \in files
                      /\ ffmpeg_on_path
                      /\ q \in {"Low", "Medium", "High"}]_vars

\* re_encode_video was called at a recognized quality with the encoder
\* resolvable on a source that does not exist.
C17_Witness ==
    /\ vp_call.op = "re_encode_video"
    /\ vp_call.quality \in {"Low", "Medium", "High"}
    /\ vp_call.path \notin files
    /\ ffmpeg_on_path
    /\ vp_call.ret = "False"
    /\ vp_call.runs = 0

\* C18: a re_encode_video call never raises and starts the encoder at most
\* once; it returns True iff it started the encoder and that run exited with
\* code 0, and False when the run exited with another code.
C18_EncoderRunOnceNoRetry ==
    [][\A i \in Paths, q \in QualityLevels :
          ReEncodeOf(i, q) => \A o \in Paths : \A run \in RunOutcomes(i, o) :
             ReEncodeCall(i, o, q, run) =>
                /\ vp_call'.raised = "None"
                /\ vp_call'.runs <= 1
                /\ vp_call'.ret = "True" <=>
                      (vp_call'.runs = 1 /\ run = "exit0")
                /\ (vp_call'.runs = 1 /\ run \in {"exit1", "exit1_partial"})
                      => vp_call'.ret = "False"]_vars

\* The encoder was started once on an existing source and failed, leaving a
\* partial destination: re_encode_video returned False.
C18_Witness ==
    /\ vp_call.op = "re_encode_video"
    /\ vp_call.runs = 1
    /\ vp_call.ret = "False"
    /\ vp_call.path \in TempPaths
    /\ files = {vp_call.path} \cup DestPaths

\* C19: re_encode_video removes no file, and with a destination different
\* from the source the source exists after the call iff it existed before;
\* a file disappears only in a delete_temp_file call.
C19_SourceUntouched ==
    [][/\ \A i \in Paths, q \in QualityLevels :
             ReEncodeOf(i, q) => \A o \in Paths : \A run \in RunOutcomes(i, o) :
                (ReEncodeCall(i, o, q, run) /\ i # o) =>
                   /\ i \in files' <=> i \in files
                   /\ files \subseteq files'
       /\ (\E p \in files : p \notin files') => delete_temp_file]_vars

\* A re-encoding succeeded and its source is still on disk.
C19_Witness ==
    /\ vp_call.op = "re_encode_video"
    /\ vp_call.ret = "True"
    /\ vp_call.path \in files
    /\ Cardinality(files) >= 2

-----------------------------------------------------------------------------
(* Properties of the application *)

\* The step on which dialog.exec() ends: accept() after a successful save,
\* or reject().
DialogTerminates == dlg = "open" /\ dlg' = "closed"

\* C9 as stated: whenever the post-capture dialog terminates, the temp file
\* of its recording does not exist afterwards.
C9_TempFileGoneAfterDialog ==
    [][DialogTerminates => temp_video_path \notin files']_vars

\* C9 as amended: whenever the post-capture dialog terminates, the temp file
\* of its recording does not exist afterwards unless os.remove failed on
\* it, and then it is left as it was.
C9_TempFileDeletedBestEffort ==
    [][DialogTerminates =>
          /\ temp_video_path \notin undeletable
                => temp_video_path \notin files'
          /\ temp_video_path \in undeletable
                => (temp_video_path \in files' <=> temp_video_path \in files)
          /\ vp_call'.op = "delete_temp_file"
          /\ vp_call'.raised = "None"]_vars

\* The dialog was accepted after a successful save: the destination exists
\* and the temp file is gone.
C9_Witness ==
    /\ dlg = "closed"
    /\ temp_video_path \in TempPaths
    /\ vp_call.op = "delete_temp_file"
    /\ vp_call.path = temp_video_path
    /\ temp_video_path \notin files
    /\ DestPaths \subseteq files

\* C15: in the application every call that _start_record makes to
\* start_capture (recording not under way, a rectangle selected, the encoder
\* on the search path) passes a width and a height greater than zero.
C15_StartCaptureGetsPositiveSize ==
    [][(_start_record /\ ~is_recording /\ selected_rect # None
          /\ CheckFfmpeg) =>
          /\ selected_rect[1].width > 0
          /\ selected_rect[1].height > 0]_vars

\* A recording was started on a rectangle that the overlay emitted for a
\* drag over several pixels.
C15_Witness ==
    /\ is_recording
    /\ cm_call.op = "start_capture"
    /\ cm_call.ret = "True"
    /\ selected_rect # None
    /\ selected_rect[1].width > 1
    /\ emitted = << selected_rect[1] >>

\* C20: once closeEvent has been accepted, the temporary directory of the
\* intermediate files does not exist.
C20_TempDirRemovedOnClose ==
    app = "closed" => ~temp_dir_exists

\* C21: while the post-capture dialog is open (the preview and
\* re_encode_video read the intermediate file) no capture process is alive:
\* none writes the file the dialog reads, and the manager is not capturing.
C21_NoReaderWhileWriterAlive ==
    dlg = "open" =>
        /\ \A i \in AliveProcs : procs[i].out # temp_video_path
        /\ ~IsCapturing
        /\ ~is_recording

\* The dialog is open on the file of a stopped recording and re_encode_video
\* has read it.
C21_Witness ==
    /\ dlg = "open"
    /\ temp_video_path \in files
    /\ temp_video_path = temp_output_file
    /\ vp_call.op = "re_encode_video"
    /\ vp_call.path = temp_video_path
    /\ vp_call.runs = 1

\* C22: every activation of the overlay leaves anchor, end point and
\* candidate rectangle empty; from then on the candidate rectangle is the
\* normalized rectangle of the anchor and the end point set by the press and
\* the moves of this activation, and the rectangle a gesture emits is that
\* one.
C22_RearmClearsSelection ==
    /\ [][(~ovVisible /\ ovVisible') =>
             /\ start_point' = None
             /\ end_point' = None
             /\ current_rect' = None
             /\ emitted' = << >>]_vars
    /\ [](start_point = None => (end_point = None /\ current_rect = None))
    /\ [](current_rect # None =>
             /\ start_point # None
             /\ end_point # None
             /\ current_rect[1] =
                   Normalized(QRect(start_point[1], end_point[1])))
    /\ []((GestureEnded /\ emitted # << >>) =>
             emitted = << Selection(Normalized(QRect(start_point[1],
                                                     end_point[1]))) >>)

\* The overlay was activated again after a gesture that emitted a selection,
\* and the new gesture has a candidate rectangle that differs from it.
C22_Witness ==
    /\ ovVisible
    /\ selected_rect # None
    /\ current_rect # None
    /\ Selection(current_rect[1]) # selected_rect[1]
    /\ emitted = << >>

\* C23: whenever the overlay is hidden, and so after every release of the
\* primary button that ends a gesture, with or without an emission, it does
\* not hold the mouse grab and its cursor is the default arrow.
C23_InactiveReleasedAndArrow ==
    ~ovVisible => (~mouseGrab /\ cursor = "Arrow")

\* A gesture has ended without emitting a selection: the grab is released
\* and the cursor restored.
C23_Witness ==
    /\ GestureEnded
    /\ emitted = << >>
    /\ end_point # start_point
    /\ ~mouseGrab
    /\ cursor = "Arrow"

\* C24: while a re_encode_video call of the dialog is in flight, the thread
\* of the event loop can process an event: some handler of the dialog can
\* run.
C24_UiResponsiveWhileEncoding ==
    encoding # "None" => ENABLED (_set_quality \/ _discard_video \/ reject)

\* C25: whenever is_recording is False the capture manager has no live
\* process, also after a _stop_record that stop_capture left by raising.
C25_NotRecordingImpliesNotCapturing ==
    ~is_recording => ~IsCapturing

\* C26: a gesture that has ended, with or without an emission, leaves the
\* main window visible: overlay and main window are never both hidden.
C26_GestureEndShowsMainWindow ==
    GestureEnded => mainVisible

\* C27: once closeEvent has been accepted no process spawned by the
\* application is alive; a closeEvent that leaves the application running
\* (the user declined) changes nothing at all.
C27_AcceptedCloseLeavesNoProcess ==
    /\ [](app = "closed" => AliveProcs = {})
    /\ [][(app = "running" /\ closeEvent) => app' # "running"]_vars

\* The exit was confirmed while a recording was under way: the capture
\* process was terminated and the event accepted.
C27_Witness ==
    /\ app = "closed"
    /\ is_recording
    /\ cm_call.op = "stop_capture"
    /\ cm_call.sigterm
    /\ AliveProcs = {}

\* C28: while the dialog stays open its temp file is not deleted; a
\* re_encode_video failure leaves the dialog open and removes no file; a
\* file disappears only on the step that accepts or rejects the dialog.  (A
\* cancelled file chooser changes nothing at all.)
C28_FailedSaveKeepsDialogAndFile ==
    [][/\ (dlg = "open" /\ dlg' = "open") =>
             /\ temp_video_path' = temp_video_path
             /\ temp_video_path \in files => temp_video_path \in files'
       /\ (encoding # "None" /\ encoding' = "None"
               /\ vp_call'.op = "re_encode_video") =>
             /\ vp_call'.ret = "False"
             /\ dlg' = "open"
             /\ files \subseteq files'
       /\ (\E p \in files : p \notin files') => DialogTerminates]_vars

\* A re-encoding started from the dialog has failed: the dialog is still
\* open, able to take a click, and the temp file is still on disk.
C28_Witness ==
    /\ dlg = "open"
    /\ encoding = "None"
    /\ vp_call.op = "re_encode_video"
    /\ vp_call.ret = "False"
    /\ vp_call.runs = 1
    /\ temp_video_path \in files

\* C29: a capture process that is alive is never blocked in a write to the
\* stdout or stderr pipe that start_capture attached to it.
C29_CaptureNeverBlockedOnPipe ==
    \A i \in AliveProcs : ~Blocked(procs[i])

=============================================================================
